---- MODULE Spec2Model ----
(***************************************************************************)
(* The mock chat-completion server of scripts/mock-llm-server.py.          *)
(*                                                                         *)
(* Text is a sequence of one-character strings, so that substring search,  *)
(* lower-casing, slicing, whitespace splitting and number formatting are   *)
(* computed as the Python code computes them.  A JSON value (and every     *)
(* Python value the handler touches) is a tagged record:                   *)
(*   [t |-> "str",  s |-> text]      [t |-> "int",  n |-> number]          *)
(*   [t |-> "list", l |-> sequence]  [t |-> "dict", d |-> key :> value]    *)
(*   [t |-> "null"]                                                        *)
(***************************************************************************)
EXTENDS Integers, Sequences, FiniteSets, TLC

VARIABLES
  serving,   \* httpd.serve_forever() is running (main, line 162)
  pc,        \* "idle", "accepted" (a request read, do_POST not yet run),
             \* "responded" (do_POST has returned or raised)
  req,       \* the request of the connection being served, or NoReq
  times,     \* the three clock readings of that request's handling
  out,       \* what do_POST did with req: response, locals, escaped exception
  nfailed,   \* history: requests since start not answered 200 (capped)
  first      \* history: the first request served after start and its outcome

vars == <<serving, pc, req, times, out, nfailed, first>>

-----------------------------------------------------------------------------
(* Bounds of the model *)

\* messages lists have at most MaxMsgs elements
MaxMsgs == 2
\* time.time() returns whole seconds 0 .. MaxClock
MaxClock == 1
\* nfailed counts up to MaxFailed
MaxFailed == 2

-----------------------------------------------------------------------------
(* Text primitives (Python str) *)

UpperCase == <<"A","B","C","D","E","F","G","H","I","J","K","L","M",
               "N","O","P","Q","R","S","T","U","V","W","X","Y","Z">>
LowerCase == <<"a","b","c","d","e","f","g","h","i","j","k","l","m",
               "n","o","p","q","r","s","t","u","v","w","x","y","z">>

\* str.lower() on one character
LowerChar(c) ==
  IF \E i \in 1..Len(UpperCase) : UpperCase[i] = c
  THEN LowerCase[CHOOSE i \in 1..Len(UpperCase) : UpperCase[i] = c]
  ELSE c

\* str.lower()
Lower(s) == [i \in 1..Len(s) |-> LowerChar(s[i])]

\* kw in s
Contains(s, kw) ==
  \E i \in 1..(Len(s) - Len(kw) + 1) : SubSeq(s, i, i + Len(kw) - 1) = kw

\* s[:n]
Take(s, n) == SubSeq(s, 1, IF Len(s) < n THEN Len(s) ELSE n)

\* the characters str.split() separates words at
IsSpace(c) == c \in {" ", "\n", "\t", "\r", "\f"}

\* len(s.split())
WordCount(s) ==
  Cardinality({i \in 1..Len(s) : ~IsSpace(s[i]) /\ (i = 1 \/ IsSpace(s[i-1]))})

Digits == <<"0","1","2","3","4","5","6","7","8","9">>

\* str(n) for an integer n >= 0
RECURSIVE IntToStr(_)
IntToStr(n) ==
  IF n < 10 THEN <<Digits[n + 1]>>
  ELSE Append(IntToStr(n \div 10), Digits[(n % 10) + 1])

\* two decimal digits, as strftime's %H %M %S print them
TwoDigits(n) == <<Digits[(n \div 10) + 1], Digits[(n % 10) + 1]>>

\* time.strftime('%Y-%m-%d %H:%M:%S') at epoch second t of 1970-01-01, UTC
FormatTime(t) ==
  <<"1","9","7","0","-","0","1","-","0","1"," ">>
    \o TwoDigits((t \div 3600) % 24) \o <<":">>
    \o TwoDigits((t \div 60) % 60) \o <<":">>
    \o TwoDigits(t % 60)

-----------------------------------------------------------------------------
(* Python values *)

PyNone == [t |-> "null"]
PyStr(s) == [t |-> "str", s |-> s]
PyInt(n) == [t |-> "int", n |-> n]
PyList(l) == [t |-> "list", l |-> l]
PyDict(d) == [t |-> "dict", d |-> d]

\* dict.get(key, default)
Get(v, key, default) == IF key \in DOMAIN v.d THEN v.d[key] ELSE default

\* what an f-string prints for a value (str() of it)
Format(v) ==
  CASE v.t = "str" -> v.s
    [] v.t = "null" -> <<"N","o","n","e">>
    [] v.t = "int" -> IntToStr(v.n)

-----------------------------------------------------------------------------
(* The literal texts of generate_mock_response *)

\* the grave accent character of the fenced example (it cannot be written
\* inside a TLA+ string)
BackQuote == "grave-accent"

\* rule 1 (line 104)
GreetingReply ==
  <<
   "H","e","l","l","o","!"," ","I","'","m"," ","a"," ","m","o","c","k"," ","A","I"," ","a","s",
   "s","i","s","t","a","n","t"," ","r","u","n","n","i","n","g"," ","i","n"," ","t","h","e"," ",
   "C","r","o","w","d"," ","M","o","d","e","l","s"," ","t","e","s","t"," ","e","n","v","i","r",
   "o","n","m","e","n","t","."," ","H","o","w"," ","c","a","n"," ","I"," ","h","e","l","p"," ",
   "y","o","u"," ","t","o","d","a","y","?"
  >>

\* rule 2, up to {model} (line 107)
NameReplyHead ==
  <<
   "I","'","m"," ","a"," ","m","o","c","k"," ","v","e","r","s","i","o","n"," ","o","f"," "
  >>

\* rule 2, after {model} (line 107)
NameReplyTail ==
  <<
   ","," ","r","u","n","n","i","n","g"," ","o","n"," ","t","h","e"," ","C","r","o","w","d"," ",
   "M","o","d","e","l","s"," ","d","e","c","e","n","t","r","a","l","i","z","e","d"," ","n","e",
   "t","w","o","r","k"," ","f","o","r"," ","t","e","s","t","i","n","g"," ","p","u","r","p","o",
   "s","e","s","."
  >>

\* rule 3 (lines 110-121)
CodeReply ==
  <<
   "H","e","r","e","'","s"," ","a"," ","s","i","m","p","l","e"," ","P","y","t","h","o","n"," ",
   "e","x","a","m","p","l","e",":","\n","\n",BackQuote,BackQuote,BackQuote,"p","y","t","h","o",
   "n","\n","d","e","f"," ","h","e","l","l","o","_","w","o","r","l","d","(",")",":","\n"," ",
   " "," "," ","p","r","i","n","t","(","\"","H","e","l","l","o"," ","f","r","o","m"," ","t","h",
   "e"," ","C","r","o","w","d"," ","M","o","d","e","l","s"," ","n","e","t","w","o","r","k","!",
   "\"",")","\n"," "," "," "," ","r","e","t","u","r","n"," ","\"","S","u","c","c","e","s","s",
   "\"","\n","\n","#"," ","T","h","i","s"," ","i","s"," ","a"," ","m","o","c","k"," ","r","e",
   "s","p","o","n","s","e"," ","f","o","r"," ","t","e","s","t","i","n","g","\n","h","e","l","l",
   "o","_","w","o","r","l","d","(",")","\n",BackQuote,BackQuote,BackQuote,"\n","\n","T","h","i",
   "s"," ","i","s"," ","a"," ","m","o","c","k"," ","c","o","d","e"," ","r","e","s","p","o","n",
   "s","e"," ","g","e","n","e","r","a","t","e","d"," ","f","o","r"," ","t","e","s","t","i","n",
   "g"," ","t","h","e"," ","C","r","o","w","d"," ","M","o","d","e","l","s"," ","P","2","P"," ",
   "n","e","t","w","o","r","k","."
  >>

\* rule 4 (line 124)
MathReply ==
  <<
   "I"," ","c","a","n"," ","h","e","l","p"," ","w","i","t","h"," ","m","a","t","h","!"," ","F",
   "o","r"," ","e","x","a","m","p","l","e",":"," ","2"," ","+"," ","2"," ","="," ","4",","," ",
   "a","n","d"," ","t","h","e"," ","s","q","u","a","r","e"," ","r","o","o","t"," ","o","f"," ",
   "1","6"," ","i","s"," ","4","."," ","T","h","i","s"," ","i","s"," ","a"," ","m","o","c","k",
   " ","m","a","t","h","e","m","a","t","i","c","a","l"," ","r","e","s","p","o","n","s","e"," ",
   "f","o","r"," ","t","e","s","t","i","n","g"," ","p","u","r","p","o","s","e","s","."
  >>

\* rule 5 (lines 127-131)
StoryReply ==
  <<
   "O","n","c","e"," ","u","p","o","n"," ","a"," ","t","i","m","e",","," ","i","n"," ","a"," ",
   "d","e","c","e","n","t","r","a","l","i","z","e","d"," ","n","e","t","w","o","r","k"," ","f",
   "a","r",","," ","f","a","r"," ","a","w","a","y",","," ","t","h","e","r","e"," ","l","i","v",
   "e","d"," ","a"," ","m","o","c","k"," ","A","I"," ","a","s","s","i","s","t","a","n","t",".",
   " ","T","h","i","s"," ","a","s","s","i","s","t","a","n","t"," ","h","e","l","p","e","d"," ",
   "t","e","s","t"," ","t","h","e"," ","C","r","o","w","d"," ","M","o","d","e","l","s"," ","P",
   "2","P"," ","n","e","t","w","o","r","k"," ","b","y"," ","p","r","o","v","i","d","i","n","g",
   " ","c","o","n","s","i","s","t","e","n","t"," ","r","e","s","p","o","n","s","e","s"," ","t",
   "o"," ","v","a","r","i","o","u","s"," ","p","r","o","m","p","t","s","."," ","\n","\n","T",
   "h","e"," ","a","s","s","i","s","t","a","n","t"," ","w","a","s"," ","h","a","p","p","y"," ",
   "t","o"," ","s","e","r","v","e"," ","r","e","s","e","a","r","c","h","e","r","s"," ","a","n",
   "d"," ","d","e","v","e","l","o","p","e","r","s"," ","w","h","o"," ","w","e","r","e"," ","b",
   "u","i","l","d","i","n","g"," ","t","h","e"," ","f","u","t","u","r","e"," ","o","f"," ","d",
   "i","s","t","r","i","b","u","t","e","d"," ","A","I"," ","s","y","s","t","e","m","s","."," ",
   "A","n","d"," ","t","h","e","y"," ","a","l","l"," ","l","i","v","e","d"," ","e","f","f","i",
   "c","i","e","n","t","l","y"," ","e","v","e","r"," ","a","f","t","e","r",".","\n","\n","*",
   "T","h","i","s"," ","i","s"," ","a"," ","m","o","c","k"," ","s","t","o","r","y"," ","r","e",
   "s","p","o","n","s","e"," ","f","o","r"," ","t","e","s","t","i","n","g",".","*"
  >>

\* rule 6, up to the echoed prompt (lines 134-136)
FallbackHead ==
  <<
   "T","h","i","s"," ","i","s"," ","a"," ","m","o","c","k"," ","r","e","s","p","o","n","s","e",
   " ","g","e","n","e","r","a","t","e","d"," ","b","y"," ","t","h","e"," ","t","e","s","t"," ",
   "L","L","M"," ","s","e","r","v","e","r"," ","f","o","r"," ","t","h","e"," ","C","r","o","w",
   "d"," ","M","o","d","e","l","s"," ","n","e","t","w","o","r","k",".","\n","\n","Y","o","u",
   "r"," ","p","r","o","m","p","t"," ","w","a","s",":"," ","\""
  >>

\* rule 6, between the echoed prompt and {model} (lines 136-138)
FallbackModel ==
  <<
   "\"","\n","\n","M","o","d","e","l",":"," "
  >>

\* rule 6, between {model} and the time (lines 138-139)
FallbackTime ==
  <<
   "\n","T","i","m","e",":"," "
  >>

\* rule 6, after the time (lines 139-141)
FallbackTail ==
  <<
   "\n","\n","T","h","i","s"," ","r","e","s","p","o","n","s","e"," ","i","s"," ","g","e","n",
   "e","r","a","t","e","d"," ","f","o","r"," ","t","e","s","t","i","n","g"," ","p","u","r","p",
   "o","s","e","s"," ","a","n","d"," ","d","e","m","o","n","s","t","r","a","t","e","s"," ","t",
   "h","a","t"," ","t","h","e"," ","P","2","P"," ","n","e","t","w","o","r","k"," ","i","s"," ",
   "f","u","n","c","t","i","o","n","i","n","g"," ","c","o","r","r","e","c","t","l","y","."
  >>

-----------------------------------------------------------------------------
(* The keywords of generate_mock_response *)

KwHello == <<"h","e","l","l","o">>
KwHi == <<"h","i">>
KwWhat == <<"w","h","a","t">>
KwName == <<"n","a","m","e">>
KwCode == <<"c","o","d","e">>
KwPython == <<"p","y","t","h","o","n">>
KwMath == <<"m","a","t","h">>
KwCalculate == <<"c","a","l","c","u","l","a","t","e">>
KwStory == <<"s","t","o","r","y">>
KwTale == <<"t","a","l","e">>

\* prompt[:100] and len(prompt) > 100
TruncLen == 100

\* the tokens estimated per word, in tenths (1.3)
TokensPerWord10 == 13

\* the model name used when the request names none
DefaultModel == PyStr(<<"g","p","t","-","3",".","5","-","t","u","r","b","o">>)

\* "chatcmpl-"
IdPrefix == <<"c","h","a","t","c","m","p","l","-">>

\* '/chat/completions'
ChatPath == <<"/","c","h","a","t","/","c","o","m","p","l","e","t","i","o","n","s">>

UserRole == <<"u","s","e","r">>

-----------------------------------------------------------------------------
(* generate_mock_response(prompt, model), reading the clock at second tf *)

\* the ellipsis put after every echoed prompt of TruncLen characters or more
EllipsisFromLimit(prompt) ==
  IF Len(prompt) >= TruncLen THEN <<".", ".", ".">> ELSE <<>>

\* '...' if len(prompt) > 100 else ''
Ellipsis(prompt) ==
  IF Len(prompt) > TruncLen THEN <<".", ".", ".">> ELSE <<>>

\* the rules tried in another order: rule 3 before rule 1
generate_mock_response_CodeFirst(prompt, model, tf) ==
  LET prompt_lower == Lower(prompt) IN
  IF Contains(prompt_lower, KwCode) \/ Contains(prompt_lower, KwPython)
  THEN CodeReply
  ELSE IF Contains(prompt_lower, KwHello) \/ Contains(prompt_lower, KwHi)
  THEN GreetingReply
  ELSE IF Contains(prompt_lower, KwWhat) /\ Contains(prompt_lower, KwName)
  THEN NameReplyHead \o Format(model) \o NameReplyTail
  ELSE IF Contains(prompt_lower, KwMath) \/ Contains(prompt_lower, KwCalculate)
  THEN MathReply
  ELSE IF Contains(prompt_lower, KwStory) \/ Contains(prompt_lower, KwTale)
  THEN StoryReply
  ELSE FallbackHead
         \o Take(prompt, TruncLen) \o Ellipsis(prompt)
         \o FallbackModel \o Format(model)
         \o FallbackTime \o FormatTime(tf)
         \o FallbackTail

generate_mock_response(prompt, model, tf) ==
  LET prompt_lower == Lower(prompt) IN
  IF Contains(prompt_lower, KwHello) \/ Contains(prompt_lower, KwHi)
  THEN GreetingReply
  ELSE IF Contains(prompt_lower, KwWhat) /\ Contains(prompt_lower, KwName)
  THEN NameReplyHead \o Format(model) \o NameReplyTail
  ELSE IF Contains(prompt_lower, KwCode) \/ Contains(prompt_lower, KwPython)
  THEN CodeReply
  ELSE IF Contains(prompt_lower, KwMath) \/ Contains(prompt_lower, KwCalculate)
  THEN MathReply
  ELSE IF Contains(prompt_lower, KwStory) \/ Contains(prompt_lower, KwTale)
  THEN StoryReply
  ELSE FallbackHead
         \o Take(prompt, TruncLen) \o Ellipsis(prompt)
         \o FallbackModel \o Format(model)
         \o FallbackTime \o FormatTime(tf)
         \o FallbackTail

-----------------------------------------------------------------------------
(* urlparse(self.path).path, for a request target that starts with one "/" *)
(* (no scheme, no netloc)                                                  *)

\* s up to the first c, all of s when it holds no c
UpTo(s, c) ==
  IF \E i \in 1..Len(s) : s[i] = c
  THEN SubSeq(s, 1, (CHOOSE i \in 1..Len(s) :
                        s[i] = c /\ \A j \in 1..(i-1) : s[j] # c) - 1)
  ELSE s

\* urllib.parse._splitparams: the path without the ;parameters of its last
\* segment
SplitParams(url) ==
  LET slashes == {i \in 1..Len(url) : url[i] = "/"}
      lastSlash == IF slashes = {} THEN 1
                   ELSE CHOOSE i \in slashes : \A j \in slashes : j <= i
      semis == {i \in lastSlash..Len(url) : url[i] = ";"}
  IN IF semis = {} THEN url
     ELSE SubSeq(url, 1, (CHOOSE i \in semis : \A j \in semis : i <= j) - 1)

UrlPath(url) == SplitParams(UpTo(UpTo(url, "#"), "?"))

-----------------------------------------------------------------------------
(* do_POST *)

NoResponse ==
  [id |-> <<>>, created |-> 0, model |-> PyNone, content |-> <<>>,
   prompt_tokens |-> 0, completion_tokens |-> 0, total_tokens |-> 0]

\* What one run of do_POST did.  status: the status line sent (0: none);
\* error: the exception that left do_POST ("": none); read: rfile.read ran;
\* parsed: json.loads ran; selected: generate_mock_response ran;
\* prompt_text: the local of that name; response: the JSON body written.
Outcome(status, error, read, parsed, selected, prompt_text, response) ==
  [status |-> status, error |-> error, read |-> read, parsed |-> parsed,
   selected |-> selected, prompt_text |-> prompt_text, response |-> response]

\* self.send_error(code, ...) from an except clause of the try block
SendError(code, parsed, prompt_text) ==
  Outcome(code, "", TRUE, parsed, FALSE, prompt_text, NoResponse)

\* the values len() accepts
HasLen(v) == v.t \in {"list", "str", "dict"}

\* what "for msg in messages" iterates over, for a list and for a str
Elements(v) ==
  CASE v.t = "list" -> v.l
    [] v.t = "str" -> [i \in 1..Len(v.s) |-> PyStr(<<v.s[i]>>)]

\* the loop taking the content of every message, whatever its role
RECURSIVE BuildPromptAnyRole(_, _, _)
BuildPromptAnyRole(messages, i, acc) ==
  IF i > Len(messages) THEN [ok |-> TRUE, text |-> acc]
  ELSE LET msg == messages[i] IN
       IF msg.t # "dict"
       THEN [ok |-> FALSE, text |-> acc]
       ELSE LET content == Get(msg, "content", PyStr(<<>>)) IN
            IF content.t # "str"
            THEN [ok |-> FALSE, text |-> acc]
            ELSE BuildPromptAnyRole(messages, i + 1, acc \o content.s)

\* the loop of lines 47-50 from element i on, prompt_text being acc: the
\* text built, or the exception raised on the way
RECURSIVE BuildPrompt(_, _, _)
BuildPrompt(messages, i, acc) ==
  IF i > Len(messages) THEN [ok |-> TRUE, text |-> acc]
  ELSE LET msg == messages[i] IN
       IF msg.t # "dict"
       THEN [ok |-> FALSE, text |-> acc]        \* AttributeError: no .get
       ELSE IF Get(msg, "role", PyNone).t = "str"
               /\ Get(msg, "role", PyNone).s = UserRole
       THEN LET content == Get(msg, "content", PyStr(<<>>)) IN
            IF content.t # "str"
            THEN [ok |-> FALSE, text |-> acc]   \* TypeError: str += non-str
            ELSE BuildPrompt(messages, i + 1, acc \o content.s)
       ELSE BuildPrompt(messages, i + 1, acc)

\* the total taken as the sum of the two floored counts
TotalTokensFloorFirst(prompt_tokens10, completion_tokens10) ==
  (prompt_tokens10 \div 10) + (completion_tokens10 \div 10)

\* the total with each count rounded up before the sum
TotalTokensRoundUp(prompt_tokens10, completion_tokens10) ==
  ((prompt_tokens10 + 9) \div 10) + ((completion_tokens10 + 9) \div 10)

\* int(prompt_tokens + completion_tokens), the two counts given in tenths
TotalTokens(prompt_tokens10, completion_tokens10) ==
  (prompt_tokens10 + completion_tokens10) \div 10

\* lines 40-87, request_data being a dict
Complete(request_data, tf, ti, tc) ==
  LET model == Get(request_data, "model", DefaultModel)
      messages == Get(request_data, "messages", PyList(<<>>))
      built == BuildPrompt(Elements(messages), 1, <<>>)
  IN
  IF ~built.ok THEN SendError(500, TRUE, built.text)
  ELSE
    LET prompt_text == built.text
        mock_content == generate_mock_response(prompt_text, model, tf)
        prompt_tokens10 == WordCount(prompt_text) * TokensPerWord10
        completion_tokens10 == WordCount(mock_content) * TokensPerWord10
        total_tokens == TotalTokens(prompt_tokens10, completion_tokens10)
    IN Outcome(200, "", TRUE, TRUE, TRUE, prompt_text,
               [id |-> IdPrefix \o IntToStr(ti),
                created |-> tc,
                model |-> model,
                content |-> mock_content,
                prompt_tokens |-> prompt_tokens10 \div 10,
                completion_tokens |-> completion_tokens10 \div 10,
                total_tokens |-> total_tokens])

\* lines 35-95: the try block on the bytes read
TryBlock(body, tf, ti, tc) ==
  IF body.k = "badutf8" THEN SendError(500, FALSE, <<>>)  \* UnicodeDecodeError
  ELSE IF body.k = "notjson" THEN SendError(400, TRUE, <<>>)  \* JSONDecodeError
  ELSE LET request_data == body.v IN
       IF request_data.t # "dict"
       THEN SendError(500, TRUE, <<>>)         \* AttributeError: no .get
       ELSE IF ~HasLen(Get(request_data, "messages", PyList(<<>>)))
       THEN SendError(500, TRUE, <<>>)         \* TypeError: len() of it
       ELSE Complete(request_data, tf, ti, tc)

\* do_POST with the Content-Length read before the path is looked at
do_POST_ReadFirst(r, tf, ti, tc) ==
  IF r.content_length = "absent"
  THEN Outcome(0, "TypeError", FALSE, FALSE, FALSE, <<>>, NoResponse)
  ELSE IF r.content_length = "text"
  THEN Outcome(0, "ValueError", FALSE, FALSE, FALSE, <<>>, NoResponse)
  ELSE IF UrlPath(r.path) # ChatPath
  THEN Outcome(404, "", FALSE, FALSE, FALSE, <<>>, NoResponse)
  ELSE TryBlock(r.body, tf, ti, tc)

\* do_POST on request r, the clock reading tf in strftime (line 139), ti in
\* the id (line 62) and tc in created (line 64)
do_POST(r, tf, ti, tc) ==
  IF UrlPath(r.path) # ChatPath
  THEN Outcome(404, "", FALSE, FALSE, FALSE, <<>>, NoResponse)
  ELSE IF r.content_length = "absent"                    \* int(None)
  THEN Outcome(0, "TypeError", FALSE, FALSE, FALSE, <<>>, NoResponse)
  ELSE IF r.content_length = "text"                      \* int("abc")
  THEN Outcome(0, "ValueError", FALSE, FALSE, FALSE, <<>>, NoResponse)
  ELSE TryBlock(r.body, tf, ti, tc)

-----------------------------------------------------------------------------
(* The requests the environment sends *)

\* a text of TruncLen characters, a space at every seventh
Filler == [i \in 1..TruncLen |-> IF i % 7 = 0 THEN " " ELSE "x"]

Message(role, content) ==
  PyDict(("role" :> PyStr(role)) @@ ("content" :> content))

UserContents ==
  { <<"H","e","l","l","o">>, <<"w","h","a","t">>, <<" ","n","a","m","e">>,
    <<"c","o","d","e">>, <<"m","a","t","h">>, <<"t","a","l","e">>,
    <<"i">>, Filler }

UserMessages == {Message(UserRole, PyStr(c)) : c \in UserContents}

SystemRole == <<"s","y","s","t","e","m">>

\* messages of another role: with a keyword as content, and with a null content
OtherMessages ==
  { Message(SystemRole, PyStr(<<"c","o","d","e">>)),
    Message(SystemRole, PyNone) }

\* elements that make the loop raise: a user message whose content is null,
\* and an element that is no object
BadElements == { Message(UserRole, PyNone), PyNone }

SeqsUpTo(S, n) == UNION {[1..k -> S] : k \in 0..n}

MessageLists == SeqsUpTo(UserMessages \cup OtherMessages \cup BadElements, MaxMsgs)

\* the "model" member: absent, a string, or null
ModelFields ==
  { <<>>, "model" :> PyStr(<<"G","P","T"," ","4">>), "model" :> PyNone }

\* the "messages" member: absent, null, a number, a string, or a list
MessagesFields ==
  { <<>>, "messages" :> PyNone, "messages" :> PyInt(3),
    "messages" :> PyStr(<<>>), "messages" :> PyStr(<<"h","i">>) }
  \cup {"messages" :> PyList(l) : l \in MessageLists}

\* the "max_tokens" and "temperature" members: absent, or present
ExtraFields == { <<>>, ("max_tokens" :> PyInt(5)) @@ ("temperature" :> PyInt(1)) }

\* every messages member with the default model and no extra member, and the
\* short lists with every model and extra member
ObjectBodies ==
  { [k |-> "json", v |-> PyDict(ms)] : ms \in MessagesFields }
  \cup { [k |-> "json", v |-> PyDict(mo @@ ("messages" :> PyList(l)) @@ ex)] :
           mo \in ModelFields, ex \in ExtraFields,
           l \in {m \in MessageLists : Len(m) <= MaxMsgs - 1} }

\* bodies that are not UTF-8, not JSON, or JSON but no object
OddBodies ==
  { [k |-> "badutf8"], [k |-> "notjson"],
    [k |-> "json", v |-> PyList(<<>>)], [k |-> "json", v |-> PyNone] }

Bodies == ObjectBodies \cup OddBodies

\* request targets: the endpoint, bare and with a query string, with
\* ;parameters and with a fragment; other paths
Paths ==
  { ChatPath,
    ChatPath \o <<"?","x","=","1">>,
    ChatPath \o <<";","v">>,
    ChatPath \o <<"/">>,
    <<"/","u","n","k","n","o","w","n">> }

\* the Content-Length header: absent, not a number, or the length of the body
ContentLengths == {"absent", "text", "length"}

Request(path, content_length, body) ==
  [path |-> path, content_length |-> content_length, body |-> body]

HelloBody ==
  [k |-> "json",
   v |-> PyDict("messages" :> PyList(<<Message(UserRole, PyStr(<<"H","e","l","l","o">>))>>))]

EmptyListBody == [k |-> "json", v |-> PyDict("messages" :> PyList(<<>>))]

NullMessagesBody == [k |-> "json", v |-> PyDict("messages" :> PyNone)]

\* every path and header with a few bodies, and every body on the endpoint
Requests ==
  { Request(p, c, b) :
      p \in Paths, c \in ContentLengths,
      b \in {HelloBody, NullMessagesBody, [k |-> "badutf8"], [k |-> "notjson"]} }
  \cup { Request(ChatPath, "length", b) : b \in Bodies }

\* the requests replayed against a server with a history
ProbeRequests ==
  { Request(ChatPath, c, b) :
      c \in {"absent", "length"},
      b \in {HelloBody, EmptyListBody, NullMessagesBody, [k |-> "notjson"]} }
  \cup { Request(<<"/","u","n","k","n","o","w","n">>, "length", HelloBody) }

-----------------------------------------------------------------------------
(* The server *)

NoReq == [path |-> <<>>, content_length |-> "none", body |-> [k |-> "none"]]
NoTimes == <<0, 0, 0>>
NoOutcome == Outcome(0, "", FALSE, FALSE, FALSE, <<>>, NoResponse)
NoFirst == [req |-> NoReq, times |-> NoTimes, out |-> NoOutcome]

\* main(): HTTPServer(...) built, serve_forever() entered
Init ==
  /\ serving = TRUE
  /\ pc = "idle"
  /\ req = NoReq
  /\ times = NoTimes
  /\ out = NoOutcome
  /\ nfailed = 0
  /\ first = NoFirst

\* serve_forever() takes a connection carrying a POST request r of U; a
\* MockLLMHandler is built for it
Accept(U) ==
  /\ serving
  /\ pc = "idle"
  /\ \E r \in U : req' = r
  /\ pc' = "accepted"
  /\ UNCHANGED <<serving, times, out, nfailed, first>>

\* do_POST run by a handler that answers 500 once a request has failed
DoPOSTSticky(history) ==
  /\ pc = "accepted"
  /\ \E tf \in 0..MaxClock, ti \in 0..MaxClock, tc \in 0..MaxClock :
       /\ tf <= ti /\ ti <= tc
       /\ times' = <<tf, ti, tc>>
       /\ out' = IF nfailed > 0 THEN SendError(500, FALSE, <<>>)
                 ELSE do_POST(req, tf, ti, tc)
       /\ first' = IF history /\ first = NoFirst
                   THEN [req |-> req, times |-> <<tf, ti, tc>>, out |-> out']
                   ELSE first
       /\ nfailed' = IF history /\ out'.status # 200 /\ nfailed < MaxFailed
                     THEN nfailed + 1 ELSE nfailed
  /\ pc' = "responded"
  /\ UNCHANGED <<serving, req>>

\* do_POST runs on the accepted request, the clock advancing (or not) between
\* its three readings.  An exception leaving do_POST ends the connection
\* without a response; serve_forever goes on.  With history, the first
\* outcome since start and the number of failures are remembered.
DoPOST(history) ==
  /\ pc = "accepted"
  /\ \E tf \in 0..MaxClock, ti \in 0..MaxClock, tc \in 0..MaxClock :
       /\ tf <= ti /\ ti <= tc
       /\ times' = <<tf, ti, tc>>
       /\ out' = do_POST(req, tf, ti, tc)
       /\ first' = IF history /\ first = NoFirst
                   THEN [req |-> req, times |-> <<tf, ti, tc>>, out |-> out']
                   ELSE first
       /\ nfailed' = IF history /\ out'.status # 200 /\ nfailed < MaxFailed
                     THEN nfailed + 1 ELSE nfailed
  /\ pc' = "responded"
  /\ UNCHANGED <<serving, req>>

\* the connection is closed; request, locals and response are gone
Finish ==
  /\ pc = "responded"
  /\ pc' = "idle"
  /\ req' = NoReq
  /\ times' = NoTimes
  /\ out' = NoOutcome
  /\ UNCHANGED <<serving, nfailed, first>>

\* KeyboardInterrupt: serve_forever() ends, the socket is closed
Interrupt ==
  /\ serving
  /\ pc = "idle"
  /\ serving' = FALSE
  /\ UNCHANGED <<pc, req, times, out, nfailed, first>>

Next == Accept(Requests) \/ DoPOST(FALSE) \/ Finish \/ Interrupt

Spec == Init /\ [][Next]_vars

\* the same server, its history observed, replaying a few requests
NextSeq == Accept(ProbeRequests) \/ DoPOST(TRUE) \/ Finish \/ Interrupt

SpecSeq == Init /\ [][NextSeq]_vars

-----------------------------------------------------------------------------
(* Vocabulary of the properties *)

\* do_POST has run on the request of the open connection
Responded == pc = "responded"

\* the request is a POST to the endpoint
OnEndpoint == Responded /\ UrlPath(req.path) = ChatPath

\* a 200 response has been sent
Answered == Responded /\ out.status = 200

\* s starts with p
StartsWith(s, p) == Len(p) <= Len(s) /\ SubSeq(s, 1, Len(p)) = p

\* the number of maximal runs of non-whitespace characters of s
Words(s) ==
  Cardinality({i \in 1..Len(s) :
                 s[i] \notin {" ", "\n", "\t", "\r", "\f"}
                 /\ (i = Len(s) \/ s[i+1] \in {" ", "\n", "\t", "\r", "\f"})})

\* the value of a run of decimal digits
IsDigit(c) == \E i \in 1..10 : Digits[i] = c
DigitValue(c) == (CHOOSE i \in 1..10 : Digits[i] = c) - 1

RECURSIVE StrToInt(_)
StrToInt(s) ==
  IF Len(s) = 0 THEN 0
  ELSE 10 * StrToInt(SubSeq(s, 1, Len(s) - 1)) + DigitValue(s[Len(s)])

\* the predicate of rule i on the lower-cased prompt lp
RuleHolds(i, lp) ==
  CASE i = 1 -> Contains(lp, KwHello) \/ Contains(lp, KwHi)
    [] i = 2 -> Contains(lp, KwWhat) /\ Contains(lp, KwName)
    [] i = 3 -> Contains(lp, KwCode) \/ Contains(lp, KwPython)
    [] i = 4 -> Contains(lp, KwMath) \/ Contains(lp, KwCalculate)
    [] i = 5 -> Contains(lp, KwStory) \/ Contains(lp, KwTale)
    [] i = 6 -> TRUE

\* the lowest-numbered rule the prompt satisfies
FirstRule(prompt) ==
  CHOOSE i \in 1..6 :
    /\ RuleHolds(i, Lower(prompt))
    /\ \A j \in 1..(i-1) : ~RuleHolds(j, Lower(prompt))

\* the reply of rule i: the whole text where it is fixed, its fixed head where
\* it is interpolated
RuleText(i) ==
  CASE i = 1 -> GreetingReply
    [] i = 2 -> NameReplyHead
    [] i = 3 -> CodeReply
    [] i = 4 -> MathReply
    [] i = 5 -> StoryReply
    [] i = 6 -> FallbackHead

\* the reply of a rule whose text is fixed is that text; of rule 2 and 6, a
\* text that starts with the rule's head
IsReplyOf(content, i) ==
  IF i \in {2, 6} THEN StartsWith(content, RuleText(i)) ELSE content = RuleText(i)

IsUser(msg) ==
  /\ msg.t = "dict"
  /\ "role" \in DOMAIN msg.d
  /\ msg.d["role"] = PyStr(UserRole)

\* the request's body is a JSON object whose "messages" is a list of objects
HasMessageList ==
  /\ Responded
  /\ req.body.k = "json"
  /\ req.body.v.t = "dict"
  /\ "messages" \in DOMAIN req.body.v.d
  /\ req.body.v.d["messages"].t = "list"
  /\ \A i \in 1..Len(req.body.v.d["messages"].l) :
       req.body.v.d["messages"].l[i].t = "dict"

\* the contents of the user messages of list l, concatenated in order
RECURSIVE UserConcat(_)
UserConcat(l) ==
  IF l = <<>> THEN <<>>
  ELSE UserConcat(SubSeq(l, 1, Len(l) - 1))
         \o (IF IsUser(l[Len(l)]) /\ "content" \in DOMAIN l[Len(l)].d
             THEN l[Len(l)].d["content"].s ELSE <<>>)

\* request r without its non-user messages, max_tokens and temperature
Stripped(r) ==
  LET d == r.body.v.d
      kept == DOMAIN d \ {"max_tokens", "temperature"}
  IN [r EXCEPT !.body.v.d =
        [k \in kept |-> IF k = "messages"
                        THEN PyList(SelectSeq(d[k].l, IsUser)) ELSE d[k]]]

\* a request the spec calls valid: the endpoint, a Content-Length, a JSON
\* object whose messages (if any) are {role, content} objects with string
\* content
WellFormed(r) ==
  /\ UrlPath(r.path) = ChatPath
  /\ r.content_length = "length"
  /\ r.body.k = "json"
  /\ r.body.v.t = "dict"
  /\ "messages" \in DOMAIN r.body.v.d =>
       /\ r.body.v.d["messages"].t = "list"
       /\ \A i \in 1..Len(r.body.v.d["messages"].l) :
            LET m == r.body.v.d["messages"].l[i] IN
            /\ m.t = "dict"
            /\ "content" \in DOMAIN m.d => m.d["content"].t = "str"

-----------------------------------------------------------------------------
(* Properties *)

\* C1: every POST to /chat/completions gets a response of status 200, 400 or
\* 500, and no exception leaves do_POST.
C1_AllFailuresHandled ==
  OnEndpoint => out.status \in {200, 400, 500} /\ out.error = ""

\* C2: a POST to the endpoint whose body is not valid JSON gets status 400,
\* and no reply is selected and no completion body is written for it (here
\* for the requests that carry a proper Content-Length).
C2_InvalidJsonIs400 ==
  (OnEndpoint /\ req.content_length = "length"
     /\ req.body.k \in {"badutf8", "notjson"})
  => /\ out.status = 400
     /\ ~out.selected
     /\ out.response = NoResponse

C5_FirstMatchWins ==
  Answered =>
    /\ IsReplyOf(out.response.content, FirstRule(out.prompt_text))
    /\ StartsWith(out.response.content, FallbackHead)
         <=> \A i \in 1..5 : ~RuleHolds(i, Lower(out.prompt_text))

C5_Witness ==
  /\ Answered
  /\ Contains(Lower(out.prompt_text), KwHello)
  /\ Contains(Lower(out.prompt_text), KwCode)
  /\ out.response.content = GreetingReply

\* C6: total_tokens = floor(13 * (p + c) / 10), prompt_tokens =
\* floor(13 * p / 10) and completion_tokens = floor(13 * c / 10), p and c
\* being the word counts of the prompt and of the reply.
C6_TokenFormula ==
  Answered =>
    LET p == Words(out.prompt_text)
        c == Words(out.response.content)
    IN /\ out.response.total_tokens = (13 * (p + c)) \div 10
       /\ out.response.prompt_tokens = (13 * p) \div 10
       /\ out.response.completion_tokens = (13 * c) \div 10

\* a response whose total is one more than the sum of the two floored fields
C6_Witness ==
  /\ Answered
  /\ Words(out.prompt_text) > 0
  /\ out.response.total_tokens =
       out.response.prompt_tokens + out.response.completion_tokens + 1

\* C7: the integer after "chatcmpl-" in id equals created.
C7_IdMatchesCreated ==
  Answered =>
    /\ StartsWith(out.response.id, IdPrefix)
    /\ \A i \in (Len(IdPrefix) + 1)..Len(out.response.id) : IsDigit(out.response.id[i])
    /\ StrToInt(SubSeq(out.response.id, Len(IdPrefix) + 1, Len(out.response.id)))
         = out.response.created

\* C8: the prompt is the concatenation, in order and with no separator, of
\* the contents of the user messages; the request without its other
\* messages, max_tokens and temperature gets the same status, reply and usage.
C8_OnlyUserMessagesCount ==
  (OnEndpoint /\ req.content_length = "length" /\ HasMessageList) =>
    LET o == do_POST(Stripped(req), times[1], times[2], times[3]) IN
    /\ o.status = out.status
    /\ o.response.content = out.response.content
    /\ o.response.prompt_tokens = out.response.prompt_tokens
    /\ o.response.completion_tokens = out.response.completion_tokens
    /\ o.response.total_tokens = out.response.total_tokens
    /\ out.status = 200 =>
         out.prompt_text = UserConcat(req.body.v.d["messages"].l)

\* a request with a system message holding a keyword, then a user message
C8_Witness ==
  /\ Answered
  /\ HasMessageList
  /\ Len(req.body.v.d["messages"].l) = 2
  /\ ~IsUser(req.body.v.d["messages"].l[1])
  /\ req.body.v.d["messages"].l[1].d["content"] = PyStr(KwCode)
  /\ IsUser(req.body.v.d["messages"].l[2])
  /\ out.prompt_text # <<>>
  /\ ~Contains(Lower(out.prompt_text), KwCode)

\* C9: the fallback reply echoes the first min(100, length) characters of the
\* prompt, followed by "..." exactly when the prompt is longer than 100
\* characters; an empty messages list gives the empty prompt, the fallback
\* reply with an empty echo and no ellipsis, and prompt_tokens = 0.
C9_FallbackEcho ==
  /\ (Answered /\ \A i \in 1..5 : ~RuleHolds(i, Lower(out.prompt_text))) =>
       LET p == out.prompt_text
           n == IF Len(p) < 100 THEN Len(p) ELSE 100
           after == IF Len(p) > 100 THEN <<".", ".", ".">> \o FallbackModel
                    ELSE FallbackModel
       IN StartsWith(out.response.content, FallbackHead \o SubSeq(p, 1, n) \o after)
  /\ (OnEndpoint /\ req.content_length = "length" /\ HasMessageList
        /\ req.body.v.d["messages"].l = <<>>) =>
       /\ out.status = 200
       /\ out.prompt_text = <<>>
       /\ StartsWith(out.response.content, FallbackHead \o FallbackModel)
       /\ out.response.prompt_tokens = 0

\* a fallback reply to a prompt of exactly 100 characters
C9_Witness ==
  /\ Answered
  /\ Len(out.prompt_text) = 100
  /\ StartsWith(out.response.content, FallbackHead)

\* C10: the usage fields are non-negative integers and
\* prompt_tokens + completion_tokens <= total_tokens
\*   <= prompt_tokens + completion_tokens + 1.
C10_TotalWithinOne ==
  Answered =>
    LET u == out.response IN
    /\ u.prompt_tokens \in Nat
    /\ u.completion_tokens \in Nat
    /\ u.total_tokens \in Nat
    /\ u.prompt_tokens + u.completion_tokens <= u.total_tokens
    /\ u.total_tokens <= u.prompt_tokens + u.completion_tokens + 1

\* a response whose total equals the sum, the prompt having many words
C10_Witness ==
  /\ Answered
  /\ out.response.prompt_tokens > 10
  /\ out.response.total_tokens =
       out.response.prompt_tokens + out.response.completion_tokens

====
